---- MODULE Spec2Model ----
(***************************************************************************)
(* State-machine model of the M365 Copilot command-line demos:             *)
(*   M365SematicKernel (main.py, auth.py, tooling.py) and                  *)
(*   M365ChatAPI       (main.py, getToken.py).                             *)
(* One run of one script: credential acquisition (get_access_token, two    *)
(* acquire_token calls), create_conversation, the prompt loop with its     *)
(* chat turns and plugin calls, and process exit with the atexit handler.  *)
(* The identity provider, the chat API and the document store are the      *)
(* environment: their answers are inputs drawn with \E.                    *)
(***************************************************************************)
EXTENDS Integers, Sequences, FiniteSets, TLC

VARIABLES
    variant,          \* which script runs: "SK" (M365SematicKernel) or "Chat" (M365ChatAPI)
    pc,               \* position of main(): "start", "acq2", "authed", "loop", "exited"
    exitBy,           \* how the process ended ("" while it runs)
    cache,            \* in-memory token cache contents: "empty" or the credential held
    changed,          \* cache.has_state_changed
    file,             \* CACHE_FILE: "absent", "corrupt", "empty" or the credential stored
    file0,            \* history: CACHE_FILE as it was at process start
    fileWrites,       \* history: number of writes of CACHE_FILE in this run
    mutated,          \* history: the in-memory store was modified in this run
    acqLog,           \* history: one record per acquire_token call
    token,            \* what get_access_token handed to main ("unset" before)
    conv,             \* the conversation: [posted, opened, token, answer, id]
    deletes,          \* history: DELETE /conversations/{id} requests issued
    turns,            \* history: chat POSTs issued
    document_buffer,  \* LocalDocumentGeneratorPlugin.document_buffer
    filename,         \* LocalDocumentGeneratorPlugin.filename
    puts,             \* history: PUT requests issued to the document store
    prevUpload,       \* history: outcome of the last upload with no generate since
    lastEvent,        \* history: what the last step did
    steps             \* number of prompt-loop operations so far (bounded)

vars == <<variant, pc, exitBy, cache, changed, file, file0, fileWrites, mutated,
          acqLog, token, conv, deletes, turns, document_buffer, filename, puts,
          prevUpload, lastEvent, steps>>

authVars == <<cache, changed, file, fileWrites, mutated, acqLog>>
docVars  == <<document_buffer, filename, puts, prevUpload>>

----------------------------------------------------------------------------
(* Bounds *)

MaxSteps == 3         \* prompt-loop operations per run

----------------------------------------------------------------------------
(* Values *)

NoToken == "None"                       \* Python None
Tokens  == {"T1", "T2"}                 \* access tokens the identity provider issues
FreshToken(n) == IF n = 1 THEN "T1" ELSE "T2"   \* the one it issues in the n-th call
StoredCred == "T0"                      \* the credential a previous run left behind

\* Python truthiness of acquire_token()'s result
Truthy(t) == t # NoToken /\ t # ""

\* Answers of pca.acquire_token_silent(scopes, account=accounts[0]):
\*   "cached"    a dict holding the access token already in the cache
\*   "refreshed" a dict holding a new access token (the cache is updated)
\*   "none"      None (no suitable token in the cache)
\*   "notoken"   a dict without the key access_token
\*   "raise"     an exception
SilentOutcomes == {"cached", "refreshed", "none", "notoken", "raise"}

----------------------------------------------------------------------------
(* Token manager: auth.py (M365SematicKernel) and getToken.py (M365ChatAPI) *)

\* if os.path.exists(CACHE_FILE): try: cache.deserialize(f.read()) except: print
\* deserialize replaces the contents and resets has_state_changed; a missing
\* file is skipped and a corrupt one raises before anything is assigned.
LoadCache(c, ch, f) ==
    IF f \in {"absent", "corrupt"}
    THEN [cache |-> c, changed |-> ch, loaded |-> FALSE]
    ELSE [cache |-> f, changed |-> FALSE, loaded |-> TRUE]

\* accounts = pca.get_accounts(); "if accounts:"
Accounts(c) == c # "empty"

\* the silent call leaves the try block by an exception: acquire_token_silent
\* raised, or it returned None and response.get raised AttributeError
SilentRaises(so) == so \in {"none", "raise"}

\* token = response.get("access_token") after the silent call
SilentToken(c, so, nt) ==
    CASE so = "cached"    -> c
      [] so = "refreshed" -> nt
      [] OTHER            -> NoToken

RetryInteractive_Always(hasAcct, so) == TRUE

\* retry_interactive after the try/except: set in the else branch (no
\* account) and in the except branch
RetryInteractive(hasAcct, so) == ~hasAcct \/ SilentRaises(so)

\* "if retry_interactive: ... token = response.get('access_token')"; return token
ReturnedToken(retry, sTok, iTok) == IF retry THEN iTok ELSE sTok

\* The silent attempt and the interactive fallback of acquire_token.
\*   c, ch : the cache and its has_state_changed flag when the call starts
\*   so    : the answer of acquire_token_silent (if it is called)
\*   iok   : acquire_token_interactive yields an access token (if called)
\*   nt    : the access token the identity provider issues in this call
AcquireCore(c, ch, so, iok, nt) ==
    LET hasAcct == Accounts(c)
        retry   == RetryInteractive(hasAcct, so)
        sTok    == IF hasAcct /\ ~SilentRaises(so) THEN SilentToken(c, so, nt) ELSE NoToken
        sMut    == hasAcct /\ so = "refreshed"
        iTok    == IF retry /\ iok THEN nt ELSE NoToken
        iMut    == retry /\ iok
    IN  [cache       |-> IF sMut \/ iMut THEN nt ELSE c,
         changed     |-> ch \/ sMut \/ iMut,
         mutated     |-> sMut \/ iMut,
         hadAccount  |-> hasAcct,
         silent      |-> IF hasAcct THEN so ELSE "skipped",
         interactive |-> retry,
         iTok        |-> iTok,
         ret         |-> ReturnedToken(retry, sTok, iTok)]

\* auth.py acquire_token: reload CACHE_FILE, then silent / interactive
acquire_token(c, ch, f, so, iok, nt) ==
    LET l == LoadCache(c, ch, f)
        r == AcquireCore(l.cache, l.changed, so, iok, nt)
    IN  r @@ [loaded |-> l.loaded, dropped |-> l.loaded /\ ch]

\* getToken.py acquire_token: no file handling of its own (token_cache=TOKEN_CACHE)
acquire_token_chat(c, ch, so, iok, nt) ==
    AcquireCore(c, ch, so, iok, nt) @@ [loaded |-> FALSE, dropped |-> FALSE]

AcquireFor(v, c, ch, f, so, iok, nt) ==
    IF v = "SK" THEN acquire_token(c, ch, f, so, iok, nt)
                ELSE acquire_token_chat(c, ch, so, iok, nt)

\* auth.py save_cache_on_exit, registered with atexit by M365SematicKernel/main.py
save_cache_on_exit(c, ch, f, w) ==
    IF ch THEN [file |-> c, writes |-> w + 1]
          ELSE [file |-> f, writes |-> w]

\* Process exit: the interpreter runs the atexit handlers (SK only registers one)
ExitWith(reason, c, ch) ==
    /\ pc' = "exited"
    /\ exitBy' = reason
    /\ LET s == IF variant = "SK" THEN save_cache_on_exit(c, ch, file, fileWrites)
                                  ELSE [file |-> file, writes |-> fileWrites]
       IN  file' = s.file /\ fileWrites' = s.writes

\* What a step did, for the properties below:
\*   op, res  the operation and what it ended with
\*   put      the step sent a PUT to the document store
\*   held     a document was held when the step began
\*   prev     prevUpload when the step began
\*   http, payload, shown   a chat turn's answer and the payload it displayed
Event(op, res) == [op |-> op, res |-> res, put |-> FALSE, held |-> FALSE,
                   prev |-> "none", http |-> "none", payload |-> "none",
                   shown |-> "none"]

\* The inputs of one acquire_token call; a call on an empty cache never makes
\* the silent request, so its answer is not enumerated there.
AcqInputs == SilentOutcomes \X BOOLEAN

\* get_access_token, first call: "if acquire_token():" ... else raise Exception
GetAccessTokenCheck ==
    /\ pc = "start"
    /\ \E in \in AcqInputs :
         LET r == AcquireFor(variant, cache, changed, file, in[1], in[2],
                            FreshToken(Len(acqLog) + 1)) IN
         /\ (r.hadAccount \/ in[1] = "cached")
         /\ cache' = r.cache
         /\ changed' = r.changed
         /\ mutated' = (mutated \/ r.mutated)
         /\ acqLog' = Append(acqLog, r)
         /\ IF Truthy(r.ret)
            THEN /\ pc' = "acq2"
                 /\ lastEvent' = Event("acquire", "token")
                 /\ UNCHANGED <<exitBy, file, fileWrites>>
            ELSE \* raise Exception("Could not acquire token"): SK dies on it,
                 \* ChatAPI main catches it, prints it and returns
                 /\ lastEvent' = Event("acquire", "AuthError")
                 /\ ExitWith("auth_error", r.cache, r.changed)
    /\ UNCHANGED <<variant, file0, token, conv, deletes, turns, docVars, steps>>

\* get_access_token, second call: "return acquire_token()"; in SK main the
\* result is stored with os.environ["M365_TOKEN"] = ..., which raises
\* TypeError for None
GetAccessTokenReturn ==
    /\ pc = "acq2"
    /\ \E in \in AcqInputs :
         LET r == AcquireFor(variant, cache, changed, file, in[1], in[2],
                            FreshToken(Len(acqLog) + 1)) IN
         /\ (r.hadAccount \/ in[1] = "cached")
         /\ cache' = r.cache
         /\ changed' = r.changed
         /\ mutated' = (mutated \/ r.mutated)
         /\ acqLog' = Append(acqLog, r)
         /\ token' = r.ret
         /\ IF variant = "SK" /\ r.ret = NoToken
            THEN /\ lastEvent' = Event("acquire", "TypeError")
                 /\ ExitWith("type_error", r.cache, r.changed)
            ELSE /\ pc' = "authed"
                 /\ lastEvent' = Event("acquire", IF Truthy(r.ret) THEN "token" ELSE "no_token")
                 /\ UNCHANGED <<exitBy, file, fileWrites>>
    /\ UNCHANGED <<variant, file0, conv, deletes, turns, docVars, steps>>

----------------------------------------------------------------------------
(* Conversation session *)

\* Answers of the chat API to POST /conversations
OpenAnswers == {"ok", "ok_noid", "http_error", "conn_error"}

OpenRaises_TransportOnly(a) == a = "conn_error"

\* create_conversation raises: requests.post fails, raise_for_status() meets
\* a 4xx/5xx status, or conversation_data["id"] is missing
OpenRaises(a) == a # "ok"

\* return conversation_data["id"]
ConversationId(a) == IF a = "ok" THEN "conv-1" ELSE "none"

\* create_conversation(token) and what main does with its result.  The POST
\* carries "Bearer {token}" whatever the token is; an exception ends both
\* scripts (SK: uncaught; ChatAPI: caught by main, printed, main returns).
\* SK main then checks the environment variables, the token among them.
CreateConversation ==
    /\ pc = "authed"
    /\ \E a \in OpenAnswers :
         /\ conv' = [posted |-> TRUE, opened |-> (a \in {"ok", "ok_noid"}), token |-> token,
                     answer |-> a,
                     id |-> IF OpenRaises(a) THEN "none" ELSE ConversationId(a)]
         /\ IF ~OpenRaises(a)
            THEN IF variant = "SK" /\ ~Truthy(token)
                 THEN /\ lastEvent' = Event("open", "env_check")
                      /\ ExitWith("env_check", cache, changed)
                 ELSE /\ pc' = "loop"
                      /\ lastEvent' = Event("open", "ok")
                      /\ UNCHANGED <<exitBy, file, fileWrites>>
            ELSE /\ lastEvent' = Event("open", a)
                 /\ ExitWith("open_failed", cache, changed)
    /\ UNCHANGED <<variant, cache, changed, file0, mutated, acqLog, token, deletes,
                   turns, docVars, steps>>

(* JSON values as Python sees them after response.json() *)
JNull      == [t |-> "null", v |-> << >>]
JStr(cs)   == [t |-> "str",  v |-> cs]          \* cs: sequence of characters
JList(xs)  == [t |-> "list", v |-> xs]
JObj(r)    == [t |-> "obj",  v |-> r]           \* r: record = dict with string keys
Key(k)     == [t |-> "str", v |-> k]
Idx(i)     == [t |-> "int", v |-> i]

Ok(x)      == [ok |-> TRUE,  val |-> x,     exc |-> "none"]
Raise(e)   == [ok |-> FALSE, val |-> JNull, exc |-> e]

\* Python's x[k]
PyGetItem(x, k) ==
    CASE x.t = "obj"  -> IF k.t = "str" /\ k.v \in DOMAIN x.v
                         THEN Ok(x.v[k.v]) ELSE Raise("KeyError")
      [] x.t = "list" -> IF k.t # "int" THEN Raise("TypeError")
                         ELSE IF k.v + 1 \in DOMAIN x.v THEN Ok(x.v[k.v + 1])
                         ELSE Raise("IndexError")
      [] x.t = "str"  -> IF k.t # "int" THEN Raise("TypeError")
                         ELSE IF k.v + 1 \in DOMAIN x.v THEN Ok(JStr(<<x.v[k.v + 1]>>))
                         ELSE Raise("IndexError")
      [] OTHER        -> Raise("TypeError")

UserMsg == JObj([role |-> JStr(<<"u">>), text |-> JStr(<<"x">>)])
BotMsg  == JObj([role |-> JStr(<<"a">>), text |-> JStr(<<"h", "i">>)])

\* The response bodies the chat API is taken to answer with
PayloadNames == {"ok", "no_messages", "empty_list", "one_message", "no_text",
                 "messages_obj", "messages_null", "messages_str",
                 "second_str", "second_null", "second_list", "top_list"}

Payload(n) ==
    CASE n = "ok"            -> JObj([messages |-> JList(<<UserMsg, BotMsg>>)])
      [] n = "no_messages"   -> JObj([error |-> JStr(<<"e">>)])
      [] n = "empty_list"    -> JObj([messages |-> JList(<< >>)])
      [] n = "one_message"   -> JObj([messages |-> JList(<<UserMsg>>)])
      [] n = "no_text"       -> JObj([messages |-> JList(<<UserMsg, JObj([role |-> JStr(<<"a">>)])>>)])
      [] n = "messages_obj"  -> JObj([messages |-> JObj([a |-> JNull])])
      [] n = "messages_null" -> JObj([messages |-> JNull])
      [] n = "messages_str"  -> JObj([messages |-> JStr(<<"a", "b">>)])
      [] n = "second_str"    -> JObj([messages |-> JList(<<UserMsg, JStr(<<"h", "i">>)>>)])
      [] n = "second_null"   -> JObj([messages |-> JList(<<UserMsg, JNull>>)])
      [] n = "second_list"   -> JObj([messages |-> JList(<<UserMsg, JList(<<BotMsg>>)>>)])
      [] n = "top_list"      -> JList(<<UserMsg, BotMsg>>)

\* The shapes that differ from the expected one
Mismatched == PayloadNames \ {"ok"}

ExtractionIndex == 1     \* response_data['messages'][1]['text']

\* response_data['messages'][1]['text']
ExtractReply(data) ==
    LET a == PyGetItem(data, Key("messages"))
        b == IF a.ok THEN PyGetItem(a.val, Idx(ExtractionIndex)) ELSE a
    IN  IF b.ok THEN PyGetItem(b.val, Key("text")) ELSE b

\* except (KeyError, IndexError):
Caught(e) == e \in {"KeyError", "IndexError"}

\* Answers of the chat API to the chat POST: the transport fails, or a status
\* with a body that parses as JSON or does not
HttpAnswers == {"2xx", "error_status", "conn_error"}
Bodies == PayloadNames \cup {"unparseable"}

\* The part of a turn both scripts share: parse the body, extract the reply.
\*   "text"      the reply was extracted
\*   "malformed" KeyError/IndexError caught, the payload is shown
\*   "parse"     response.json() raised
\*   "TypeError" the subscripting raised something the handler does not catch
ParseAndExtract(body) ==
    IF body = "unparseable" THEN "parse"
    ELSE LET r == ExtractReply(Payload(body))
         IN  IF r.ok THEN "text" ELSE IF Caught(r.exc) THEN "malformed" ELSE "TypeError"

\* M365ChatAPI send_message after the prompt was read: what the turn ends with.
\* requests.post raises on a transport failure, raise_for_status on 4xx/5xx.
send_message(http, body) ==
    CASE http = "conn_error"   -> "ConnectionError"
      [] http = "error_status" -> "HTTPError"
      [] OTHER                 -> ParseAndExtract(body)

\* M365CopilotPlugin.send_message_sync: raise_for_status is commented out, so
\* the body is parsed whatever the status; RequestException (transport failure,
\* JSONDecodeError) is caught and returned as text.
send_message_sync(http, body) ==
    CASE http = "conn_error" -> "error_text"
      [] OTHER -> LET k == ParseAndExtract(body)
                  IN  IF k = "parse" THEN "error_text" ELSE k

TurnEvent(res, http, body) ==
    [Event("turn", res) EXCEPT !.http = http, !.payload = body,
                               !.shown = IF res = "malformed" THEN body ELSE "none"]

\* Results of a turn that raise out of the function that sends it
TurnFaults == {"ConnectionError", "HTTPError", "parse", "TypeError"}

\* M365ChatAPI send_message with the reserved input: sys.exit(0)
ChatExit ==
    /\ variant = "Chat" /\ pc = "loop"
    /\ lastEvent' = Event("exit", "exit")
    /\ ExitWith("exit_cmd", cache, changed)
    /\ UNCHANGED <<variant, cache, changed, file0, mutated, acqLog, token, conv,
                   deletes, turns, docVars, steps>>

\* M365ChatAPI send_message with any other input: one chat POST.  An exception
\* unwinds to main's "except Exception", which prints it; main then returns.
\* Otherwise send_message calls itself for the next prompt.
ChatTurn ==
    /\ variant = "Chat" /\ pc = "loop" /\ steps < MaxSteps
    /\ \E http \in HttpAnswers, body \in Bodies :
         LET res == send_message(http, body) IN
         /\ (http = "conn_error" => body = "unparseable")
         /\ lastEvent' = TurnEvent(res, http, body)
         /\ IF res \in TurnFaults
            THEN ExitWith("turn_error", cache, changed)
            ELSE UNCHANGED <<pc, exitBy, file, fileWrites>>
    /\ turns' = turns + 1
    /\ steps' = steps + 1
    /\ UNCHANGED <<variant, cache, changed, file0, mutated, acqLog, token, conv,
                   deletes, docVars>>

\* SK main with the reserved input: prints "Cleaning up...", then sys.exit();
\* the call of end_conversation is commented out
SKExit ==
    /\ variant = "SK" /\ pc = "loop"
    /\ lastEvent' = Event("exit", "exit")
    /\ ExitWith("exit_cmd", cache, changed)
    /\ UNCHANGED <<variant, cache, changed, file0, mutated, acqLog, token, conv,
                   deletes, turns, docVars, steps>>

\* SK main: get_chat_message_content itself raises (the model service fails):
\* "except Exception: ... break", then sys.exit()
SKInvocationError ==
    /\ variant = "SK" /\ pc = "loop"
    /\ lastEvent' = Event("ai", "error")
    /\ ExitWith("error_break", cache, changed)
    /\ UNCHANGED <<variant, cache, changed, file0, mutated, acqLog, token, conv,
                   deletes, turns, docVars, steps>>

\* An exception leaving a plugin function inside get_chat_message_content:
\* the kernel either turns it into a tool result (the loop goes on) or lets
\* it through to main's "except Exception: ... break".
ToolFault(absorbed) ==
    IF absorbed THEN UNCHANGED <<pc, exitBy, file, fileWrites>>
                ELSE ExitWith("error_break", cache, changed)

\* SK: the model calls sendMessageToCopilot
ToolSend ==
    /\ variant = "SK" /\ pc = "loop" /\ steps < MaxSteps
    /\ \E http \in HttpAnswers, body \in Bodies, absorbed \in BOOLEAN :
         LET res == send_message_sync(http, body) IN
         /\ (http = "conn_error" => body = "unparseable")
         /\ lastEvent' = TurnEvent(res, http, body)
         /\ IF res \in TurnFaults
            THEN ToolFault(absorbed)
            ELSE ~absorbed /\ UNCHANGED <<pc, exitBy, file, fileWrites>>
    /\ turns' = turns + 1
    /\ steps' = steps + 1
    /\ UNCHANGED <<variant, cache, changed, file0, mutated, acqLog, token, conv,
                   deletes, docVars>>

\* SK: the model calls end_conversation: DELETE, raise_for_status; a
\* RequestException is caught and returned as text
ToolEnd ==
    /\ variant = "SK" /\ pc = "loop" /\ steps < MaxSteps
    /\ \E a \in {"ok", "failed"} : lastEvent' = Event("end", a)
    /\ deletes' = deletes + 1
    /\ steps' = steps + 1
    /\ UNCHANGED <<variant, pc, exitBy, cache, changed, file, file0, fileWrites, mutated,
                   acqLog, token, conv, turns, docVars>>

----------------------------------------------------------------------------
(* Document pipeline: tooling.py *)

NoBuffer == [set |-> FALSE, data |-> << >>, pos |-> 0]

Filenames == {"f1", "f2"}
Contents  == {"None", "", "a", "b"}      \* the content argument; "None" is None

\* document.save(buffer): a .docx container around the paragraph, never empty
DocxBytes(content) == <<"PK", content>>

\* the generator holds a document that has not been read: DocumentReady
DocHeld(buf) == buf.set /\ buf.pos < Len(buf.data)

\* "if not content:"
NoContent(content) == content \in {"None", ""}

BufferRead_Peek(buf) == [bytes |-> SubSeq(buf.data, buf.pos + 1, Len(buf.data)), buf |-> buf]

\* BytesIO.read(): the bytes from the position to the end; the position moves
\* to the end
BufferRead(buf) ==
    [bytes |-> SubSeq(buf.data, buf.pos + 1, Len(buf.data)),
     buf   |-> [buf EXCEPT !.pos = Len(buf.data)]]

BufferAfterPut_Rewind(buf, a) == IF a = "ok" THEN buf ELSE [buf EXCEPT !.pos = 0]

\* the buffer once the PUT was answered: neither the success path nor the
\* HTTPError handler touches it again
BufferAfterPut(buf, a) == buf

GenerateResult_AssignFirst(buf, name, fn, content) ==
    IF NoContent(content)
    THEN [buf |-> buf, name |-> fn, ok |-> FALSE]
    ELSE [buf |-> [set |-> TRUE, data |-> DocxBytes(content), pos |-> 0],
          name |-> fn, ok |-> TRUE]

\* generate_word_document_bytes(filename, content) on the generator's
\* attributes: the content check returns before anything is assigned;
\* otherwise a fresh buffer at position 0 and the filename replace the old
GenerateResult(buf, name, fn, content) ==
    IF NoContent(content)
    THEN [buf |-> buf, name |-> name, ok |-> FALSE]
    ELSE [buf |-> [set |-> TRUE, data |-> DocxBytes(content), pos |-> 0],
          name |-> fn, ok |-> TRUE]

\* SK: the model calls generate_word_document_bytes(filename, content)
ToolGenerate ==
    /\ variant = "SK" /\ pc = "loop" /\ steps < MaxSteps
    /\ \E fn \in Filenames, content \in Contents :
         LET g == GenerateResult(document_buffer, filename, fn, content) IN
         /\ document_buffer' = g.buf
         /\ filename' = g.name
         /\ prevUpload' = IF g.ok THEN "none" ELSE prevUpload
         /\ lastEvent' = Event("generate", IF g.ok THEN "ok" ELSE "no_content")
         /\ UNCHANGED puts
    /\ steps' = steps + 1
    /\ UNCHANGED <<variant, pc, exitBy, cache, changed, file, file0, fileWrites, mutated,
                   acqLog, token, conv, deletes, turns>>

\* Answers of the document store to the PUT
PutAnswers == {"ok", "ok_nourl", "http_error", "conn_error"}

UploadEvent(res, put) ==
    [Event("upload", res) EXCEPT !.put = put, !.held = DocHeld(document_buffer),
                                 !.prev = prevUpload]

\* "if self.generator_plugin_ref.document_buffer is None: return Error...":
\* the attribute is read before it was ever assigned (AttributeError) or it
\* holds a BytesIO; nothing assigns None to it
UploadGuard(buf) == IF buf.set THEN "proceed" ELSE "AttributeError"

\* what upload_generated_file ends with after the PUT was sent: HTTPError is
\* the one exception it catches
UploadResult(a) ==
    CASE a = "ok"         -> "success"
      [] a = "http_error" -> "http_error"
      [] a = "conn_error" -> "ConnectionError"
      [] a = "ok_nourl"   -> "KeyError"

UploadFaults == {"AttributeError", "ConnectionError", "KeyError"}

\* SK: the model calls upload_generated_file
ToolUpload ==
    /\ variant = "SK" /\ pc = "loop" /\ steps < MaxSteps
    /\ \E a \in PutAnswers, absorbed \in BOOLEAN :
         IF UploadGuard(document_buffer) # "proceed"
         THEN /\ a = "ok"
              /\ lastEvent' = UploadEvent(UploadGuard(document_buffer), FALSE)
              /\ IF UploadGuard(document_buffer) \in UploadFaults
                 THEN ToolFault(absorbed)
                 ELSE ~absorbed /\ UNCHANGED <<pc, exitBy, file, fileWrites>>
              /\ UNCHANGED docVars
         ELSE LET r == BufferRead(document_buffer) IN
              /\ UNCHANGED filename
              /\ IF r.bytes = << >>
                 THEN /\ a = "ok" /\ ~absorbed
                      /\ document_buffer' = r.buf
                      /\ lastEvent' = UploadEvent("empty", FALSE)
                      /\ prevUpload' = "empty"
                      /\ UNCHANGED <<puts, pc, exitBy, file, fileWrites>>
                 ELSE /\ puts' = Append(puts, [name |-> filename, body |-> r.bytes])
                      /\ document_buffer' = BufferAfterPut(r.buf, a)
                      /\ lastEvent' = UploadEvent(UploadResult(a), TRUE)
                      /\ prevUpload' = UploadResult(a)
                      /\ IF UploadResult(a) \in UploadFaults
                         THEN ToolFault(absorbed)
                         ELSE ~absorbed /\ UNCHANGED <<pc, exitBy, file, fileWrites>>
    /\ steps' = steps + 1
    /\ UNCHANGED <<variant, cache, changed, file0, mutated, acqLog, token, conv,
                   deletes, turns>>

----------------------------------------------------------------------------

Init ==
    /\ variant \in {"SK", "Chat"}
    /\ pc = "start"
    /\ exitBy = ""
    \* SK: cache = msal.SerializableTokenCache() is empty until acquire_token
    \* loads CACHE_FILE; ChatAPI: TOKEN_CACHE = LocalTokenCache(path) holds
    \* whatever an earlier run left
    /\ cache \in (IF variant = "SK" THEN {"empty"} ELSE {"empty", StoredCred})
    /\ changed = FALSE
    /\ file \in (IF variant = "SK" THEN {"absent", "corrupt", "empty", StoredCred} ELSE {"absent"})
    /\ file0 = file
    /\ fileWrites = 0
    /\ mutated = FALSE
    /\ acqLog = << >>
    /\ token = "unset"
    /\ conv = [posted |-> FALSE, opened |-> FALSE, token |-> "unset",
               answer |-> "none", id |-> "none"]
    /\ deletes = 0
    /\ turns = 0
    \* LocalDocumentGeneratorPlugin.__init__ assigns self.content only: the
    \* attributes document_buffer and filename do not exist yet
    /\ document_buffer = NoBuffer
    /\ filename = "unset"
    /\ puts = << >>
    /\ prevUpload = "none"
    /\ lastEvent = Event("init", "none")
    /\ steps = 0

Next ==
    \/ GetAccessTokenCheck
    \/ GetAccessTokenReturn
    \/ CreateConversation
    \/ ChatExit
    \/ ChatTurn
    \/ SKExit
    \/ SKInvocationError
    \/ ToolSend
    \/ ToolEnd
    \/ ToolGenerate
    \/ ToolUpload

Spec == Init /\ [][Next]_vars

----------------------------------------------------------------------------
(* Properties *)

UploadRejections == {"empty", "no_file"}

\* C1: an upload_generated_file call made while no document is held (before
\* any successful generate, or after the last upload with no generate since)
\* returns a defined error: it sends no PUT and raises nothing.
C1_UploadWithoutDocumentRejected ==
    (lastEvent.op = "upload" /\ ~lastEvent.held)
        => (lastEvent.res \in UploadRejections /\ ~lastEvent.put)

\* C2: the buffer of one successful generate is read by at most one upload:
\* after a successful upload, an upload with no generate in between returns
\* the empty-buffer error and sends no PUT; a PUT is only ever sent by the
\* first upload after a generate, and never with empty content.
C2_BufferReadAtMostOnce ==
    /\ (lastEvent.op = "upload" /\ lastEvent.prev = "success")
           => (lastEvent.res = "empty" /\ ~lastEvent.put)
    /\ (lastEvent.op = "upload" /\ lastEvent.put) => lastEvent.prev = "none"
    /\ \A i \in DOMAIN puts : puts[i].body # << >>

C2_Witness ==
    /\ lastEvent.op = "upload" /\ lastEvent.prev = "success"
    /\ lastEvent.res = "empty" /\ Len(puts) = 1

\* C3: an upload attempted while a document is held leaves no document held,
\* whatever the PUT's outcome; after an upload that failed with an HTTP error
\* status the next upload without a generate is rejected and sends no PUT.
C3_UploadLeavesIdle ==
    /\ (lastEvent.op = "upload" /\ lastEvent.held) => ~DocHeld(document_buffer)
    /\ (lastEvent.op = "upload" /\ lastEvent.prev = "http_error")
           => (lastEvent.res = "empty" /\ ~lastEvent.put)

C3_Witness ==
    /\ lastEvent.op = "upload" /\ lastEvent.prev = "http_error"
    /\ lastEvent.res = "empty" /\ Len(puts) = 1 /\ pc = "loop"

\* C4: when the user enters 'exit' after a conversation was opened, a DELETE
\* of the conversation has been attempted by the time the process has exited.
C4_ExitDeletesConversation ==
    (pc = "exited" /\ exitBy = "exit_cmd" /\ conv.opened) => deletes > 0

\* C5: a recoverable error in one turn (a non-2xx answer to the chat POST, a
\* payload reported as malformed, an upload rejected for want of a document)
\* does not end the session: the prompt loop is still running after it.
\* (The payloads and the upload that raise instead of being reported are the
\* subject of C6 and C1.)
C5_RecoverableErrorKeepsSession ==
    /\ (lastEvent.op = "turn" /\ lastEvent.http = "error_status"
          /\ lastEvent.res # "TypeError") => pc = "loop"
    /\ (lastEvent.op = "turn" /\ lastEvent.res = "malformed") => pc = "loop"
    /\ (lastEvent.op = "upload" /\ lastEvent.res \in UploadRejections) => pc = "loop"

\* C6: a turn whose response parses but has another shape than expected never
\* raises: its result is marked malformed and the payload is what is shown.
C6_MismatchedShapeNeverRaises ==
    (lastEvent.op = "turn" /\ lastEvent.http = "2xx" /\ lastEvent.payload \in Mismatched)
        => (lastEvent.res = "malformed" /\ lastEvent.shown = lastEvent.payload)

SilentYieldsToken(r) == r.hadAccount /\ r.silent \in {"cached", "refreshed"}

\* C7: an acquire_token call that finds an account whose silent renewal
\* yields an access token starts no interactive flow; when that is so in
\* every call of the startup, the startup starts none at all.
C7_NoInteractiveWhenSilentSucceeds ==
    /\ \A i \in DOMAIN acqLog : SilentYieldsToken(acqLog[i]) => ~acqLog[i].interactive
    /\ (acqLog # << >> /\ acqLog[1].hadAccount
          /\ \A i \in DOMAIN acqLog : acqLog[i].silent \in {"cached", "refreshed", "skipped"})
           => \A i \in DOMAIN acqLog : ~acqLog[i].interactive /\ Truthy(acqLog[i].ret)

C7_Witness ==
    /\ pc = "authed" /\ Len(acqLog) = 2
    /\ \A i \in DOMAIN acqLog : SilentYieldsToken(acqLog[i]) /\ ~acqLog[i].interactive
    /\ Truthy(token)

\* C8: whenever no account is cached or the silent renewal fails (it raises,
\* or yields a result without an access token), acquire_token starts the
\* interactive flow and returns what the interactive flow obtained.
C8_FallbackOnSilentFailure ==
    \A i \in DOMAIN acqLog :
        ~SilentYieldsToken(acqLog[i])
            => (acqLog[i].interactive /\ acqLog[i].ret = acqLog[i].iTok)

\* C9: at process exit the cache file has been written exactly once if the
\* in-memory store was modified during the run, and not at all otherwise (the
\* file is then as it was at the start).
C9_CacheWrittenIffChanged ==
    (variant = "SK" /\ pc = "exited")
        => /\ mutated => fileWrites = 1
           /\ ~mutated => (fileWrites = 0 /\ file = file0)

\* C10: credential acquisition yields a non-empty token or fails; after a
\* failure no conversation is opened, and no conversation is ever opened with
\* an empty or absent token.
C10_NoConversationWithoutToken ==
    /\ conv.opened => Truthy(conv.token)
    /\ exitBy \in {"auth_error", "type_error"} => ~conv.posted
    /\ pc = "authed" => Truthy(token)

PipelineOps == {"turn", "generate", "upload"}

\* C11: once end_conversation has been invoked, no further ask-assistant,
\* generate or upload action is executed in the process.
C11_TerminatedIsTerminal ==
    lastEvent.op \in PipelineOps => deletes = 0

\* C12: create_conversation fails on a non-2xx response and the failure is
\* fatal: no conversation id is returned, the process ends on the error and
\* no chat turn is sent in that run.
C12_OpenFailureIsFatal ==
    conv.answer = "http_error"
        => /\ conv.id = "none"
           /\ pc = "exited" /\ exitBy = "open_failed"
           /\ turns = 0 /\ steps = 0

C12_Witness ==
    /\ conv.posted /\ conv.answer = "http_error"
    /\ pc = "exited" /\ exitBy = "open_failed" /\ turns = 0

ObtainedInteractively == \E i \in DOMAIN acqLog : acqLog[i].iTok # NoToken

\* C13: once get_access_token has returned, a credential obtained
\* interactively during it is in the in-memory store and the store is dirty,
\* so the cache file is written at exit; no later acquire_token call has
\* reloaded the file over it.
C13_InteractiveCredentialKept ==
    (variant = "SK" /\ ObtainedInteractively)
        => /\ pc = "authed" => (changed /\ cache \in Tokens)
           /\ (pc = "exited" /\ conv.posted) => (fileWrites = 1 /\ file \in Tokens)
           /\ \A i, j \in DOMAIN acqLog :
                 (j < i /\ acqLog[j].iTok # NoToken) => ~acqLog[i].dropped

RejectedGenerate(e) == e.op = "generate" /\ e.res = "no_content"

====
